---- MODULE Spec2Model ----
(***************************************************************************)
(* Model of rust/tw_bitcoin/src/modules/legacy/scripts.rs: the five legacy *)
(* FFI entry points that turn {key, value, intent payload} into a          *)
(* serialized LegacyProto::TransactionOutput or the null CByteArray.       *)
(*                                                                         *)
(* Each entry point is a straight-line sequence of steps; `pc` is the      *)
(* position inside the running call.  The collaborators the file calls     *)
(* (CByteArrayRef::as_slice, PublicKey::from_slice, utxo_from_proto,       *)
(* tw_proto::serialize) live outside this file and are modelled from the   *)
(* specification; cryptographic digests and curve arithmetic are abstract  *)
(* deterministic byte functions.                                           *)
(*                                                                         *)
(* Pointer arguments are either null with an empty span (byte spans, which *)
(* as_slice checks) or valid for the stated length; C strings are valid    *)
(* NUL-terminated strings (the safety contract of the unsafe extern fns).  *)
(***************************************************************************)
EXTENDS Integers, Sequences, FiniteSets, TLC

VARIABLES pc, args, slice, recipient, text, payload, output, res, proto, ret,
          trace, encoder_cap, memo

vars == <<pc, args, slice, recipient, text, payload, output, res, proto, ret,
          trace, encoder_cap, memo>>

(***************************************************************************)
(* The arguments of a call: the entry point and its parameters (those an   *)
(* entry point does not take are left at a fixed filler).                  *)
(***************************************************************************)
Args(ep, sat, key, tick, amount, mime, data) ==
    [payload |-> data, ep |-> ep, satoshis |-> sat, pubkey |-> key, ticker |-> tick,
     value |-> amount, mime_type |-> mime]

(***************************************************************************)
(* Bounds of the model.                                                    *)
(***************************************************************************)
\* number of distinct candidate x coordinates offered as compressed keys
NumKeys == 3
\* length of the longest well-sized payload offered to the NFT entry point
MaxPayloadLen == 2

(***************************************************************************)
(* 64-bit integers.  A value is the mathematical integer                   *)
(* (IF neg THEN -1 ELSE 1) * mag, mag being four 16-bit limbs, most        *)
(* significant first.  Zero is never negative.                             *)
(***************************************************************************)
LimbBase == 2 ^ 16
SignLimb == 2 ^ 15

Limbs == 1..4

Mk(n, l1, l2, l3, l4) == [neg |-> n, mag |-> <<l1, l2, l3, l4>>]

ZeroVal == Mk(FALSE, 0, 0, 0, 0)
I64Max  == Mk(FALSE, SignLimb - 1, LimbBase - 1, LimbBase - 1, LimbBase - 1)
I64Min  == Mk(TRUE, SignLimb, 0, 0, 0)
MinusOne == Mk(TRUE, 0, 0, 0, 1)
\* 100000 = 1 * 2^16 + 34464
Sat100k == Mk(FALSE, 0, 0, 1, 100000 - LimbBase)

\* m + 1 on limbs, modulo 2^64 (carry from the least significant limb up)
RECURSIVE AddOneFrom(_, _)
AddOneFrom(m, i) ==
    IF i = 0 THEN m
    ELSE IF m[i] = LimbBase - 1
         THEN AddOneFrom([m EXCEPT ![i] = 0], i - 1)
         ELSE [m EXCEPT ![i] = m[i] + 1]

\* 2^64 - m for 1 <= m < 2^64: complement every limb, add one
TwoPow64Minus(m) == AddOneFrom([i \in Limbs |-> LimbBase - 1 - m[i]], 4)

\* is the unsigned magnitude >= 2^63
TopBitSet(m) == m[1] >= SignLimb

IsU64(v) == ~v.neg

\* `x as u64` for x: i64  -- wraps modulo 2^64
AsU64(v) == IF v.neg THEN [neg |-> FALSE, mag |-> TwoPow64Minus(v.mag)] ELSE v

\* a plausible slip for `as i64`: saturate at i64::MAX instead of wrapping
AsI64_saturating(u) == IF TopBitSet(u.mag) THEN I64Max ELSE u

\* `x as i64` for x: u64  -- wraps modulo 2^64
AsI64(u) == IF TopBitSet(u.mag)
            THEN [neg |-> TRUE, mag |-> TwoPow64Minus(u.mag)]
            ELSE u

(***************************************************************************)
(* Bytes.                                                                  *)
(***************************************************************************)
Rep(b, n) == [i \in 1..n |-> b]

\* sum of the position-weighted input lo..hi, by halving
RECURSIVE WeightedSum(_, _, _)
WeightedSum(input, lo, hi) ==
    IF lo > hi THEN 0
    ELSE IF lo = hi THEN (input[lo] + 1) * (1 + ((lo * 7) % 13))
    ELSE LET mid == (lo + hi) \div 2
         IN  WeightedSum(input, lo, mid) + WeightedSum(input, mid + 1, hi)

\* abstract digest: n input determined by the tag and every input byte
Digest(tag, input, n) ==
    LET h == (tag + Len(input) + WeightedSum(input, 1, Len(input))) % 65521
    IN  [i \in 1..n |-> (h * (i + 2) + i * 7 + tag) % 256]

\* decimal ASCII digits of a natural number
RECURSIVE Decimal(_)
Decimal(n) == IF n < 10 THEN <<48 + n>> ELSE Decimal(n \div 10) \o <<48 + (n % 10)>>

IsCont(b) == b >= 128 /\ b <= 191

\* core::str::from_utf8 on the bytes before the NUL
RECURSIVE ValidUtf8(_)
ValidUtf8(s) ==
    IF s = <<>> THEN TRUE
    ELSE LET b == s[1]
             n == Len(s)
         IN  IF b < 128 THEN ValidUtf8(Tail(s))
             ELSE IF b >= 194 /\ b <= 223
                  THEN n >= 2 /\ IsCont(s[2]) /\ ValidUtf8(SubSeq(s, 3, n))
             ELSE IF b >= 224 /\ b <= 239
                  THEN /\ n >= 3
                       /\ IsCont(s[2]) /\ IsCont(s[3])
                       /\ (b = 224 => s[2] >= 160)
                       /\ (b = 237 => s[2] <= 159)
                       /\ ValidUtf8(SubSeq(s, 4, n))
             ELSE IF b >= 240 /\ b <= 244
                  THEN /\ n >= 4
                       /\ IsCont(s[2]) /\ IsCont(s[3]) /\ IsCont(s[4])
                       /\ (b = 240 => s[2] >= 144)
                       /\ (b = 244 => s[2] <= 143)
                       /\ ValidUtf8(SubSeq(s, 5, n))
             ELSE FALSE

(***************************************************************************)
(* Results of fallible steps.                                              *)
(***************************************************************************)
Ok(v)  == [ok |-> TRUE, val |-> v]
Err(e) == [ok |-> FALSE, err |-> e]

(***************************************************************************)
(* CByteArrayRef::new(ptr, len).as_slice(): a null pointer cannot be       *)
(* borrowed; any other span is borrowed as its bytes.                      *)
(***************************************************************************)
NullSpan == [null |-> TRUE, bytes |-> <<>>]
Span(b)  == [null |-> FALSE, bytes |-> b]

as_slice(span) == IF span.null THEN Err("NullSpan") ELSE Ok(span.bytes)

(***************************************************************************)
(* Key Adapter: PublicKey::from_slice / PublicKey::to_bytes.               *)
(* Curve membership and the y coordinate are abstract byte functions.      *)
(***************************************************************************)
XCoord(s) == [i \in 1..32 |-> (s * 37 + i * 11) % 256]

OnCurve(x) == (x[1] + x[32]) % 3 # 0

LiftY(x, odd) ==
    LET d == Digest(3, x, 32)
    IN  [d EXCEPT ![32] = 2 * (d[32] \div 2) + (IF odd THEN 1 ELSE 0)]

PublicKey_from_slice(b) ==
    IF Len(b) = 33
    THEN LET x == SubSeq(b, 2, 33)
         IN  IF b[1] \in {2, 3} /\ OnCurve(x)
             THEN Ok([x |-> x, odd |-> (b[1] = 3), compressed |-> TRUE])
             ELSE Err("InvalidKeyEncoding")
    ELSE IF Len(b) = 65
    THEN LET x == SubSeq(b, 2, 33)
             y == SubSeq(b, 34, 65)
         IN  IF b[1] = 4 /\ OnCurve(x) /\ y = LiftY(x, y[32] % 2 = 1)
             THEN Ok([x |-> x, odd |-> (y[32] % 2 = 1), compressed |-> FALSE])
             ELSE Err("InvalidKeyEncoding")
    ELSE Err("InvalidKeyEncoding")

PublicKey_to_bytes(k) ==
    IF k.compressed
    THEN <<(IF k.odd THEN 3 ELSE 2)>> \o k.x
    ELSE <<4>> \o k.x \o LiftY(k.x, k.odd)

(***************************************************************************)
(* Script primitives.                                                      *)
(***************************************************************************)
OP_0           == 0
OP_FALSE       == 0
OP_PUSHDATA1   == 76
OP_PUSHDATA2   == 77
OP_1           == 81
OP_IF          == 99
OP_ENDIF       == 104
OP_DUP         == 118
OP_EQUALVERIFY == 136
OP_HASH160     == 169
OP_CHECKSIG    == 172

\* largest single data push
MaxPushSize == 520
\* fixed length of a BRC20 ticker
TickerLen == 4
\* policy cap on the inscribed body (a caller-configurable stricter cap)
MaxInscriptionSize == 80

\* a data push of up to MaxPushSize bytes
Push(d) ==
    IF Len(d) = 0 THEN <<OP_0>>
    ELSE IF Len(d) <= 75 THEN <<Len(d)>> \o d
    ELSE IF Len(d) <= 255 THEN <<OP_PUSHDATA1, Len(d)>> \o d
    ELSE <<OP_PUSHDATA2, Len(d) % 256, Len(d) \div 256>> \o d

\* the body as consecutive pushes of at most MaxPushSize bytes
RECURSIVE PushChunks(_)
PushChunks(d) ==
    IF Len(d) <= MaxPushSize THEN Push(d)
    ELSE Push(SubSeq(d, 1, MaxPushSize)) \o PushChunks(SubSeq(d, MaxPushSize + 1, Len(d)))

Hash160(b) == Digest(160, b, 20)

\* tagged hash of a single script leaf (leaf version 0xc0)
TapLeafHash(leaf) == Digest(192, <<192>> \o leaf, 32)

\* x-only output key: the internal key tweaked by the (possibly empty) root
TapTweak(x, root) == Digest(86, x \o root, 32)

NoScriptTree == <<>>

OrdMarker      == <<111, 114, 100>>
Brc20MimeType  == <<116, 101, 120, 116, 47, 112, 108, 97, 105, 110, 59, 99, 104, 97,
                    114, 115, 101, 116, 61, 117, 116, 102, 45, 56>>

\* {"p":"brc-20","op":"transfer","tick":"<ticker>","amt":"<amount>"}
Brc20Body(ticker, amount) ==
    <<123, 34, 112, 34, 58, 34, 98, 114, 99, 45, 50, 48, 34, 44, 34, 111, 112, 34,
      58, 34, 116, 114, 97, 110, 115, 102, 101, 114, 34, 44, 34, 116, 105, 99, 107,
      34, 58, 34>>
    \o ticker \o <<34, 44, 34, 97, 109, 116, 34, 58, 34>> \o Decimal(amount) \o <<34, 125>>

(***************************************************************************)
(* Inscription Envelope Encoder.                                           *)
(***************************************************************************)
Envelope(x, mime, body) ==
    Push(x) \o <<OP_CHECKSIG, OP_FALSE, OP_IF>> \o Push(OrdMarker) \o Push(<<1>>)
    \o Push(mime) \o <<OP_0>> \o PushChunks(body) \o <<OP_ENDIF>>

Inscription(x, mime, body, value) ==
    IF Len(body) > MaxInscriptionSize THEN Err("PayloadTooLarge")
    ELSE LET reveal == Envelope(x, mime, body)
         IN  Ok([value |-> value,
                 script_pubkey |-> <<OP_1>> \o Push(TapTweak(x, TapLeafHash(reveal))),
                 taproot_payload |-> reveal])

(***************************************************************************)
(* OutputBuilder::utxo_from_proto: the intent-to-script resolver.          *)
(***************************************************************************)
utxo_from_proto(out) ==
    LET v   == out.to_recipient
        key == PublicKey_from_slice(v.pubkey)
    IN  IF ~key.ok THEN Err("InvalidKeyEncoding")
        ELSE IF v.variant = "p2pkh"
        THEN Ok([value |-> out.value,
                 script_pubkey |-> <<OP_DUP, OP_HASH160>> \o Push(Hash160(v.pubkey))
                                   \o <<OP_EQUALVERIFY, OP_CHECKSIG>>,
                 taproot_payload |-> <<>>])
        ELSE IF v.variant = "p2wpkh"
        THEN Ok([value |-> out.value,
                 script_pubkey |-> <<OP_0>> \o Push(Hash160(v.pubkey)),
                 taproot_payload |-> <<>>])
        ELSE IF v.variant = "p2tr_key_path"
        THEN Ok([value |-> out.value,
                 script_pubkey |-> <<OP_1>> \o Push(TapTweak(key.val.x, NoScriptTree)),
                 taproot_payload |-> <<>>])
        ELSE IF v.variant = "brc20_inscribe"
        THEN IF Len(v.ticker) > TickerLen THEN Err("InvalidPayload")
             ELSE Inscription(key.val.x, Brc20MimeType,
                              Brc20Body(v.ticker, v.transfer_amount), out.value)
        ELSE Inscription(key.val.x, v.mime_type, v.payload, out.value)

(***************************************************************************)
(* tw_proto::serialize of LegacyProto::TransactionOutput: the proto3 wire  *)
(* form (fields holding their default are not written).  The encoder is a  *)
(* deterministic partial function; the size above which it reports failure *)
(* is a parameter of the run (encoder_cap).                                *)
(***************************************************************************)
SmallWireCap == 40
LargeWireCap == 4096
EncoderCaps  == {SmallWireCap, LargeWireCap}

\* bit k (0 = least significant) of a 64-bit magnitude
BitOf(m, k) == (m[4 - (k \div 16)] \div (2 ^ (k % 16))) % 2

RECURSIVE GroupFrom(_, _, _)
GroupFrom(m, j, t) ==
    IF t > 6 \/ 7 * j + t > 63 THEN 0
    ELSE BitOf(m, 7 * j + t) * (2 ^ t) + GroupFrom(m, j, t + 1)

\* the j-th 7-bit group (0 = least significant)
Group(m, j) == GroupFrom(m, j, 0)

NGroups(m) ==
    LET used == {j \in 0..9 : Group(m, j) # 0}
    IN  IF used = {} THEN 1 ELSE 1 + CHOOSE j \in used : \A k \in used : k <= j

Varint64(m) ==
    LET n == NGroups(m)
    IN  [j \in 1..n |-> Group(m, j - 1) + (IF j < n THEN 128 ELSE 0)]

RECURSIVE VarintNat(_)
VarintNat(n) == IF n < 128 THEN <<n>> ELSE <<128 + (n % 128)>> \o VarintNat(n \div 128)

BytesField(tag, b) == IF b = <<>> THEN <<>> ELSE <<tag>> \o VarintNat(Len(b)) \o b

WireBytes(rec) ==
    (IF rec.value = ZeroVal THEN <<>> ELSE <<8>> \o Varint64(AsU64(rec.value).mag))
    \o BytesField(18, rec.script)
    \o BytesField(42, rec.spendingScript)

tw_proto_serialize(rec, cap) ==
    LET b == WireBytes(rec)
    IN  IF Len(b) > cap THEN Err("SerializationFailure") ELSE Ok(b)

(***************************************************************************)
(* CByteArray: the buffer handed back across the boundary.                 *)
(***************************************************************************)
CByteArray_null    == [null |-> TRUE, bytes |-> <<>>]
CByteArray_from(v) == [null |-> FALSE, bytes |-> v]

\* CStr::from_ptr(p).to_str()
CStr_to_str(s) == IF ValidUtf8(s) THEN Ok(s) ELSE Err("Utf8Error")

(***************************************************************************)
(* The entry points.                                                       *)
(***************************************************************************)
P2PKH  == "tw_build_p2pkh_script"
P2WPKH == "tw_build_p2wpkh_script"
P2TR   == "tw_build_p2tr_key_path_script"
BRC20  == "tw_build_brc20_transfer_inscription"
NFT    == "tw_bitcoin_build_nft_inscription"

EntryPoints  == {P2PKH, P2WPKH, P2TR, BRC20, NFT}
BaseEntries  == {P2PKH, P2WPKH, P2TR}
Inscriptions == {BRC20, NFT}

\* a copy-paste slip: the P2WPKH entry point asks for the P2PKH variant
OutputVariant_pasted(ep) ==
    CASE ep = P2PKH  -> "p2pkh"
      [] ep = P2WPKH -> "p2pkh"
      [] ep = P2TR   -> "p2tr_key_path"
      [] ep = BRC20  -> "brc20_inscribe"
      [] ep = NFT    -> "ordinal_inscribe"

\* the ProtoOutputBuilder variant each entry point builds
OutputVariant(ep) ==
    CASE ep = P2PKH  -> "p2pkh"
      [] ep = P2WPKH -> "p2wpkh"
      [] ep = P2TR   -> "p2tr_key_path"
      [] ep = BRC20  -> "brc20_inscribe"
      [] ep = NFT    -> "ordinal_inscribe"

\* Proto::Output as each entry point fills it in
ProtoOutput(ep, satoshis, key, str, data, amount) ==
    [value |-> AsU64(satoshis),
     to_recipient |->
        IF ep = BRC20
        THEN [pubkey |-> PublicKey_to_bytes(key), ticker |-> str,
              variant |-> OutputVariant(ep), transfer_amount |-> amount]
        ELSE IF ep = NFT
        THEN [payload |-> data, pubkey |-> PublicKey_to_bytes(key),
              mime_type |-> str, variant |-> OutputVariant(ep)]
        ELSE [pubkey |-> PublicKey_to_bytes(key), variant |-> OutputVariant(ep)]]

\* a copy-paste slip: every entry point leaves spendingScript at its default
SpendingScript_default(ep, r) == <<>>

\* spendingScript: Default::default() for the base intents, taproot_payload otherwise
SpendingScript(ep, r) == IF ep \in Inscriptions THEN r.taproot_payload ELSE <<>>

\* a slip: the reveal script lands in script
RecordScript_reveal(ep, r) == IF ep \in Inscriptions THEN r.taproot_payload ELSE r.script_pubkey

\* script: res.script_pubkey
RecordScript(ep, r) == r.script_pubkey

\* a slip: the two script fields exchanged
TransactionOutput_swapped(ep, r) ==
    [value |-> AsI64(r.value),
     script |-> SpendingScript(ep, r),
     spendingScript |-> RecordScript(ep, r)]

\* a slip: a buffer kept from an earlier call leaks into the record
TransactionOutput_reused(ep, r) ==
    [value |-> AsI64(r.value),
     script |-> RecordScript(ep, r),
     spendingScript |-> IF memo.set THEN memo.ret.bytes ELSE SpendingScript(ep, r)]

\* LegacyProto::TransactionOutput as each entry point fills it in
TransactionOutput(ep, r) ==
    [value |-> AsI64(r.value),
     script |-> RecordScript(ep, r),
     spendingScript |-> SpendingScript(ep, r)]

(***************************************************************************)
(* Arguments offered by callers.                                           *)
(***************************************************************************)
Satoshis == {ZeroVal, Sat100k, I64Max, MinusOne, I64Min}

CompressedKey(s)   == <<2 + (s % 2)>> \o XCoord(s)
UncompressedKey(s) == <<4>> \o XCoord(s) \o LiftY(XCoord(s), s % 2 = 1)

KeySpans ==
    {NullSpan, Span(Rep(0, 33)), Span(XCoord(1)), Span(UncompressedKey(1))}
    \cup {Span(CompressedKey(s)) : s \in 1..NumKeys}

\* "ordi", "ordix", a string with a stray 0xFF, and a two-byte UTF-8 character
Tickers == {<<111, 114, 100, 105>>, <<111, 114, 100, 105, 120>>,
            <<111, 114, 255, 105>>, <<195, 169>>}

Amounts == {0, 1000}

\* "text/plain", "image/png", and an overlong (invalid) UTF-8 sequence
MimeTypes == {<<116, 101, 120, 116, 47, 112, 108, 97, 105, 110>>,
              <<105, 109, 97, 103, 101, 47, 112, 110, 103>>,
              <<192, 128>>}

Payloads ==
    {NullSpan, Span(Rep(7, MaxInscriptionSize + 1))}
    \cup {Span(Rep(7, n)) : n \in 0..MaxPayloadLen}

BaseArgs(ep, sat, key) == Args(ep, sat, key, <<>>, 0, <<>>, NullSpan)

(***************************************************************************)
(* State.                                                                  *)
(***************************************************************************)
Unset  == [ok |-> FALSE, err |-> "unset"]
NoArgs == BaseArgs("none", ZeroVal, NullSpan)
NoMemo == [args |-> NoArgs, ret |-> CByteArray_null, set |-> FALSE, later |-> 0]

\* calls counted after an observed one
MaxLater == 2

Terminal == {"returned", "aborted"}

Init ==
    /\ pc = "idle"
    /\ args = NoArgs
    /\ slice = Unset
    /\ recipient = Unset
    /\ text = Unset
    /\ payload = Unset
    /\ output = Unset
    /\ res = Unset
    /\ proto = Unset
    /\ ret = Unset
    /\ trace = <<>>
    /\ encoder_cap \in EncoderCaps
    /\ memo = NoMemo

\* a slip: the steps of the NFT entry point in the order of the other four,
\* the resolver ahead of the text and payload conversions
Steps_resolver_first(ep) ==
    IF ep = BRC20
    THEN <<"borrow_key", "parse_key", "ticker", "build_output", "resolve", "pack", "serialize">>
    ELSE IF ep = NFT
    THEN <<"borrow_key", "parse_key", "build_output", "resolve", "mime_type", "borrow_payload",
           "pack", "serialize">>
    ELSE <<"borrow_key", "parse_key", "build_output", "resolve", "pack", "serialize">>

\* the steps of each entry point, in the order of its statements
Steps(ep) ==
    IF ep = BRC20
    THEN <<"borrow_key", "parse_key", "ticker", "build_output", "resolve", "pack", "serialize">>
    ELSE IF ep = NFT
    THEN <<"mime_type", "borrow_payload", "borrow_key", "parse_key", "build_output",
           "resolve", "pack", "serialize">>
    ELSE <<"borrow_key", "parse_key", "build_output", "resolve", "pack", "serialize">>

After(ep, step) ==
    LET sq == Steps(ep)
        i  == CHOOSE k \in 1..Len(sq) : sq[k] = step
    IN  sq[i + 1]

\* a slip: a failed step hands back an empty, non-null buffer
try_or_else_empty(r, next) ==
    IF r.ok THEN [pc |-> next, ret |-> Unset]
    ELSE [pc |-> "returned", ret |-> CByteArray_from(<<>>)]

\* a slip: a failed step is unwrapped, which panics
try_or_else_expect(r, next) ==
    IF r.ok THEN [pc |-> next, ret |-> Unset]
    ELSE [pc |-> "aborted", ret |-> Unset]

\* try_or_else!(r, CByteArray::null), and the `Err(_) => return CByteArray::null()` arms
try_or_else(r, next) ==
    IF r.ok THEN [pc |-> next, ret |-> Unset]
    ELSE [pc |-> "returned", ret |-> CByteArray_null]

\* the frame of a fresh call
StartCall(a) ==
    /\ pc \in {"idle", "returned"}
    /\ pc' = Steps(a.ep)[1]
    /\ args' = a
    /\ slice' = Unset
    /\ recipient' = Unset
    /\ text' = Unset
    /\ payload' = Unset
    /\ output' = Unset
    /\ res' = Unset
    /\ proto' = Unset
    /\ ret' = Unset
    /\ trace' = <<>>
    /\ memo' = IF memo.set /\ memo.later < MaxLater
               THEN [memo EXCEPT !.later = @ + 1] ELSE memo
    /\ UNCHANGED encoder_cap

tw_build_p2pkh_script ==
    \E sat \in Satoshis, key \in KeySpans : StartCall(BaseArgs(P2PKH, sat, key))

tw_build_p2wpkh_script ==
    \E sat \in Satoshis, key \in KeySpans : StartCall(BaseArgs(P2WPKH, sat, key))

tw_build_p2tr_key_path_script ==
    \E sat \in Satoshis, key \in KeySpans : StartCall(BaseArgs(P2TR, sat, key))

tw_build_brc20_transfer_inscription ==
    \E tick \in Tickers, amount \in Amounts, sat \in Satoshis, key \in KeySpans :
        StartCall(Args(BRC20, sat, key, tick, amount, <<>>, NullSpan))

tw_bitcoin_build_nft_inscription ==
    \E mime \in MimeTypes, data \in Payloads, sat \in Satoshis, key \in KeySpans :
        StartCall(Args(NFT, sat, key, <<>>, 0, mime, data))

\* a fallible step: record its result, then go on or return null
Step(name, r) ==
    LET t == try_or_else(r, After(args.ep, name))
    IN  /\ pc = name
        /\ pc' = t.pc
        /\ ret' = t.ret
        /\ trace' = Append(trace, <<name, r.ok>>)
        /\ UNCHANGED <<args, encoder_cap, memo>>

BorrowKey ==
    /\ Step("borrow_key", as_slice(args.pubkey))
    /\ slice' = as_slice(args.pubkey)
    /\ UNCHANGED <<recipient, text, payload, output, res, proto>>

ParseKey ==
    /\ pc = "parse_key"
    /\ Step("parse_key", PublicKey_from_slice(slice.val))
    /\ recipient' = PublicKey_from_slice(slice.val)
    /\ UNCHANGED <<slice, text, payload, output, res, proto>>

ConvertTicker ==
    /\ Step("ticker", CStr_to_str(args.ticker))
    /\ text' = CStr_to_str(args.ticker)
    /\ UNCHANGED <<slice, recipient, payload, output, res, proto>>

ConvertMimeType ==
    /\ Step("mime_type", CStr_to_str(args.mime_type))
    /\ text' = CStr_to_str(args.mime_type)
    /\ UNCHANGED <<slice, recipient, payload, output, res, proto>>

BorrowPayload ==
    /\ Step("borrow_payload", as_slice(args.payload))
    /\ payload' = as_slice(args.payload)
    /\ UNCHANGED <<slice, recipient, text, output, res, proto>>

BuildOutput ==
    /\ pc = "build_output"
    /\ LET out == ProtoOutput(args.ep, args.satoshis, recipient.val,
                              IF text.ok THEN text.val ELSE <<>>,
                              IF payload.ok THEN payload.val ELSE <<>>,
                              args.value)
       IN  /\ Step("build_output", Ok(out))
           /\ output' = Ok(out)
    /\ UNCHANGED <<slice, recipient, text, payload, res, proto>>

Resolve ==
    /\ pc = "resolve"
    /\ Step("resolve", utxo_from_proto(output.val))
    /\ res' = utxo_from_proto(output.val)
    /\ UNCHANGED <<slice, recipient, text, payload, output, proto>>

Pack ==
    /\ pc = "pack"
    /\ Step("pack", Ok(TransactionOutput(args.ep, res.val)))
    /\ proto' = Ok(TransactionOutput(args.ep, res.val))
    /\ UNCHANGED <<slice, recipient, text, payload, output, res>>

\* tw_proto::serialize(&proto).expect(..) and CByteArray::from(serialized)
Serialize ==
    /\ pc = "serialize"
    /\ LET r == tw_proto_serialize(proto.val, encoder_cap)
       IN  /\ trace' = Append(trace, <<"serialize", r.ok>>)
           /\ IF r.ok
              THEN pc' = "returned" /\ ret' = CByteArray_from(r.val)
              ELSE pc' = "aborted" /\ ret' = ret
    /\ UNCHANGED <<args, slice, recipient, text, payload, output, res, proto,
                   encoder_cap, memo>>

Next ==
    \/ tw_build_p2pkh_script
    \/ tw_build_p2wpkh_script
    \/ tw_build_p2tr_key_path_script
    \/ tw_build_brc20_transfer_inscription
    \/ tw_bitcoin_build_nft_inscription
    \/ BorrowKey
    \/ ParseKey
    \/ ConvertTicker
    \/ ConvertMimeType
    \/ BorrowPayload
    \/ BuildOutput
    \/ Resolve
    \/ Pack
    \/ Serialize

Spec == Init /\ [][Next]_vars

(***************************************************************************)
(* A second specification: a caller that remembers one result (Observe)    *)
(* and keeps calling, to compare a later call with equal arguments.        *)
(***************************************************************************)
HistArgs ==
    {BaseArgs(ep, sat, key) :
        ep \in BaseEntries, sat \in {Sat100k, MinusOne},
        key \in {Span(CompressedKey(1)), Span(Rep(0, 33))}}
    \cup {Args(BRC20, sat, Span(CompressedKey(1)), tick, 1000, <<>>, NullSpan) :
            sat \in {Sat100k, MinusOne},
            tick \in {<<111, 114, 100, 105>>, <<111, 114, 100, 105, 120>>}}
    \cup {Args(NFT, sat, Span(CompressedKey(1)), <<>>, 0, mime, Span(Rep(7, MaxPayloadLen))) :
            sat \in {Sat100k, MinusOne},
            mime \in {<<105, 109, 97, 103, 101, 47, 112, 110, 103>>, <<192, 128>>}}

CallAgain == \E a \in HistArgs : StartCall(a)

Observe ==
    /\ pc = "returned"
    /\ ~memo.set
    /\ memo' = [args |-> args, ret |-> ret, set |-> TRUE, later |-> 0]
    /\ UNCHANGED <<pc, args, slice, recipient, text, payload, output, res, proto, ret,
                   trace, encoder_cap>>

NextHist ==
    \/ CallAgain
    \/ Observe
    \/ BorrowKey
    \/ ParseKey
    \/ ConvertTicker
    \/ ConvertMimeType
    \/ BorrowPayload
    \/ BuildOutput
    \/ Resolve
    \/ Pack
    \/ Serialize

SpecHist == Init /\ [][NextHist]_vars

(***************************************************************************)
(* Properties.                                                             *)
(***************************************************************************)
Returned   == pc = "returned"
Succeeded  == pc = "returned" /\ ~ret.null

\* the caller's arguments fail one of the validation steps, stated on the
\* arguments alone
KeyRejected(a) == a.pubkey.null \/ ~PublicKey_from_slice(a.pubkey.bytes).ok

TextRejected(a) ==
    \/ a.ep = BRC20 /\ ~ValidUtf8(a.ticker)
    \/ a.ep = NFT /\ ~ValidUtf8(a.mime_type)

PayloadRejected(a) == a.ep = NFT /\ a.payload.null

ResolverRejected(a) ==
    \/ a.ep = BRC20 /\ Len(a.ticker) > TickerLen
    \/ a.ep = BRC20 /\ Len(Brc20Body(a.ticker, a.value)) > MaxInscriptionSize
    \/ a.ep = NFT /\ Len(a.payload.bytes) > MaxInscriptionSize

InputRejected(a) ==
    KeyRejected(a) \/ TextRejected(a) \/ PayloadRejected(a) \/ ResolverRejected(a)

\* C1: a call whose arguments fail any validation step returns the null
\* CByteArray; a non-null buffer is returned only when every step succeeded,
\* and it is then the whole serialized record.
C1_NullOnAnyFailure ==
    Returned =>
        /\ InputRejected(args) => ret = CByteArray_null
        /\ ~ret.null =>
              /\ ~InputRejected(args)
              /\ \A i \in 1..Len(trace) : trace[i][2]
              /\ [i \in 1..Len(trace) |-> trace[i][1]] = Steps(args.ep)
              /\ ret.bytes = WireBytes(proto.val)
              /\ ret.bytes # <<>>

\* a call the resolver rejected has returned null
C1_Witness ==
    /\ Returned
    /\ res # Unset
    /\ ~res.ok
    /\ ret = CByteArray_null

\* C2 (as claimed): no call succeeds in which `_satoshis as u64` or
\* `res.value as i64` changed the numeric value.
C2_NoLossyCastSucceeds ==
    Succeeded =>
        /\ output.val.value = args.satoshis
        /\ proto.val.value = res.val.value

\* C3: in a returned record spendingScript is non-empty exactly for the two
\* inscription entry points, where it is the reveal script; a base entry
\* point would leave it empty even if the resolver handed back a payload.
C3_SpendingScriptIffInscription ==
    Succeeded =>
        /\ (proto.val.spendingScript # <<>>) <=> (args.ep \in Inscriptions)
        /\ args.ep \in Inscriptions => proto.val.spendingScript = res.val.taproot_payload
        /\ args.ep \in BaseEntries =>
              TransactionOutput(args.ep, [res.val EXCEPT !.taproot_payload = <<OP_1>>])
                  .spendingScript = <<>>

C3_Witness ==
    /\ Succeeded
    /\ args.ep = BRC20
    /\ Len(proto.val.spendingScript) > 0

\* C4: the record's script is the resolver's script_pubkey, and for the
\* inscription entry points its spendingScript is the resolver's taproot
\* payload, byte for byte; the returned buffer carries both whole.
C4_StructuralMapping ==
    Succeeded =>
        /\ proto.val.script = res.val.script_pubkey
        /\ args.ep \in Inscriptions => proto.val.spendingScript = res.val.taproot_payload
        /\ \E i \in 1..Len(ret.bytes) :
              SubSeq(ret.bytes, i, i + Len(res.val.script_pubkey) - 1) = res.val.script_pubkey

C4_Witness ==
    /\ Succeeded
    /\ args.ep = NFT
    /\ Len(args.payload.bytes) = MaxPayloadLen
    /\ res.val.taproot_payload # <<>>

C6_OnlyEncoderFailureAborts ==
    /\ pc = "aborted" =>
          /\ ~InputRejected(args)
          /\ trace[Len(trace)] = <<"serialize", FALSE>>
          /\ ~tw_proto_serialize(proto.val, encoder_cap).ok
    /\ (InputRejected(args) /\ pc # "idle") => pc # "aborted"
    /\ (InputRejected(args) /\ pc \in Terminal) => ret = CByteArray_null

\* the encoder failed and the call aborted
C6_Witness ==
    /\ pc = "aborted"
    /\ proto.ok
    /\ Len(WireBytes(proto.val)) > encoder_cap

\* C7: the script of a base-intent record has the shape of its intent, built
\* over the caller's key, and each entry point asks the resolver for its own
\* variant.
C7_BaseScriptShape ==
    (Succeeded /\ args.ep \in BaseEntries) =>
        LET scr == proto.val.script
            key == args.pubkey.bytes
        IN  /\ args.ep = P2PKH =>
                  /\ output.val.to_recipient.variant = "p2pkh"
                  /\ Len(scr) = 25
                  /\ SubSeq(scr, 1, 3) = <<OP_DUP, OP_HASH160, 20>>
                  /\ SubSeq(scr, 4, 23) = Hash160(key)
                  /\ SubSeq(scr, 24, 25) = <<OP_EQUALVERIFY, OP_CHECKSIG>>
            /\ args.ep = P2WPKH =>
                  /\ output.val.to_recipient.variant = "p2wpkh"
                  /\ Len(scr) = 22
                  /\ SubSeq(scr, 1, 2) = <<OP_0, 20>>
                  /\ SubSeq(scr, 3, 22) = Hash160(key)
            /\ args.ep = P2TR =>
                  /\ output.val.to_recipient.variant = "p2tr_key_path"
                  /\ Len(scr) = 34
                  /\ SubSeq(scr, 1, 2) = <<OP_1, 32>>
                  /\ SubSeq(scr, 3, 34) = TapTweak(SubSeq(key, 2, 33), NoScriptTree)

C7_Witness ==
    /\ Succeeded
    /\ args.ep = P2WPKH
    /\ Len(proto.val.script) = 22

\* C8: for the inscription entry points, the caller's key as internal key and
\* the record's spendingScript as the single leaf re-derive the output key
\* held in the record's script.
C8_RevealRoundTrip ==
    (Succeeded /\ args.ep \in Inscriptions) =>
        proto.val.script =
            <<OP_1, 32>> \o TapTweak(SubSeq(args.pubkey.bytes, 2, 33),
                                     TapLeafHash(proto.val.spendingScript))

C8_Witness ==
    /\ Succeeded
    /\ args.ep = NFT
    /\ Len(proto.val.script) = 34
    /\ Len(proto.val.spendingScript) > 34

StepIdx(name) == {i \in 1..Len(trace) : trace[i][1] = name}

OkBefore(name, i) == \E j \in 1..(i - 1) : trace[j] = <<name, TRUE>>

\* C9: within a call the resolver runs at most once and only after the key
\* (and the text and payload, where there are any) passed; the encoder runs
\* at most once and only after the resolver succeeded; no step follows a
\* failed one; a running call stands at the step after the ones it has taken,
\* and a call ends in exactly one of: null result, serialized record, abort.
C9_StepOrder ==
    /\ Cardinality(StepIdx("resolve")) <= 1
    /\ \A i \in StepIdx("resolve") :
          /\ OkBefore("borrow_key", i)
          /\ OkBefore("parse_key", i)
          /\ args.ep = BRC20 => OkBefore("ticker", i)
          /\ args.ep = NFT => OkBefore("mime_type", i) /\ OkBefore("borrow_payload", i)
    /\ Cardinality(StepIdx("serialize")) <= 1
    /\ \A i \in StepIdx("serialize") : OkBefore("resolve", i)
    /\ \A i \in 1..(Len(trace) - 1) : trace[i][2]
    /\ pc = "returned" => /\ ret # Unset
                          /\ ret.null <=> ~trace[Len(trace)][2]
                          /\ ~ret.null => trace[Len(trace)] = <<"serialize", TRUE>>
    /\ pc = "aborted" => ret = Unset /\ trace[Len(trace)] = <<"serialize", FALSE>>
    /\ pc \notin Terminal => ret = Unset
    /\ pc \notin (Terminal \cup {"idle"}) =>
          /\ Len(trace) < Len(Steps(args.ep))
          /\ pc = Steps(args.ep)[Len(trace) + 1]
          /\ trace = <<>> \/ trace[Len(trace)][2]

C9_Witness ==
    /\ Succeeded
    /\ args.ep = NFT
    /\ Len(trace) = 8

\* C10: the value of a returned record is the _satoshis argument, also when
\* it is zero or negative; a negative _satoshis reaches the resolver as an
\* unsigned value >= 2^63 and the call still succeeds.
C10_ValueRoundTrip ==
    Succeeded =>
        /\ proto.val.value = args.satoshis
        /\ IsU64(output.val.value)
        /\ args.satoshis.neg => TopBitSet(output.val.value.mag)
        /\ res.val.value = output.val.value

C10_Witness ==
    /\ Succeeded
    /\ args.satoshis = I64Min
    /\ output.val.value = Mk(FALSE, SignLimb, 0, 0, 0)
    /\ proto.val.value = I64Min

====
